---- MODULE Spec2Model ----
(***************************************************************************)
(* Sharded Secret Key Reconstruction (bc-sskr-rust).                       *)
(*                                                                         *)
(* The model covers Secret, GroupSpec and Spec validation, the 5-byte wire *)
(* codec of a share, sskr_generate_using and sskr_combine.  The single     *)
(* level split/recover primitive of the bc_shamir crate is modelled as the *)
(* GF(2^8) polynomial construction it is, with a modular checksum standing  *)
(* in for its HMAC-SHA256 digest.                                          *)
(***************************************************************************)
EXTENDS Integers, Sequences, FiniteSets, TLC

VARIABLES
    spec,     \* the Spec handed to sskr_generate_using
    secret,   \* the master Secret handed to sskr_generate_using
    seed,     \* the seed of the random number generator of the first run
    runs,     \* results of the sskr_generate_using calls made so far
    input,    \* the serialized shares collected for sskr_combine, in order
    result,   \* result of sskr_combine on input
    wire,     \* codec: a byte sequence offered to deserialize_share
    parsed,   \* codec: result of deserialize_share on wire
    args,     \* constructors: the arguments of the constructor called
    made,     \* constructors: what the constructor returned
    pc        \* position of the caller

vars ==
    <<spec, secret, seed, runs, input, result, wire, parsed, args, made, pc>>

----------------------------------------------------------------------------
(* Program constants *)

MIN_SECRET_LEN == 16
MAX_SECRET_LEN == 32
MAX_SHARE_COUNT == 16
METADATA_SIZE_BYTES == 5

(* Bounds of the model *)

MaxShares == 4     \* Spec.share_count() of the specs explored by Spec
MaxInput == 4      \* shares handed to sskr_combine in Spec
MixedInput == 3    \* shares handed to sskr_combine in SpecMixed
MaxArg == 18       \* thresholds, counts and groups handed to a constructor
MaxData == 34      \* bytes handed to Secret::new

Byte == 0..255

----------------------------------------------------------------------------
(* Results: Result<T, SSKRError> *)

Ok(v) == [ok |-> TRUE, val |-> v, err |-> "none"]
Err(e) == [ok |-> FALSE, val |-> <<>>, err |-> e]

----------------------------------------------------------------------------
(* GF(2^8) arithmetic of the split/recover primitive (polynomial 0x11b) *)

RECURSIVE XorBits(_, _)
XorBits(a, b) ==
    IF a = 0 THEN b
    ELSE IF b = 0 THEN a
    ELSE ((a + b) % 2) + 2 * XorBits(a \div 2, b \div 2)

XorTable == [a \in Byte |-> [b \in Byte |-> XorBits(a, b)]]

Xor(a, b) == XorTable[a][b]

gf_mul2(a) == IF 2 * a >= 256 THEN Xor(2 * a - 256, 27) ELSE 2 * a

RECURSIVE ExpSeq(_)
ExpSeq(n) ==
    IF n = 1 THEN <<1>>
    ELSE LET s == ExpSeq(n - 1)
             p == s[n - 1]
         IN  Append(s, Xor(gf_mul2(p), p))

\* GF_EXP[i + 1] = 3^i
GF_EXP == ExpSeq(255)

\* GF_LOG[v] = i with 3^i = v, for v in 1..255
GF_LOG ==
    SubSeq([v \in 1..255 |-> (CHOOSE i \in 1..255 : GF_EXP[i] = v) - 1],
           1, 255)

gf_mul(a, b) ==
    IF a = 0 \/ b = 0 THEN 0
    ELSE GF_EXP[((GF_LOG[a] + GF_LOG[b]) % 255) + 1]

\* a / b for b # 0
gf_div(a, b) ==
    IF a = 0 THEN 0
    ELSE GF_EXP[((GF_LOG[a] + 255 - GF_LOG[b]) % 255) + 1]

\* Lagrange basis value at x of point i of the abscissas xs
RECURSIVE lagrange_basis(_, _, _, _)
lagrange_basis(xs, i, x, j) ==
    IF j = 0 THEN 1
    ELSE IF j = i THEN lagrange_basis(xs, i, x, j - 1)
    ELSE gf_mul(gf_div(Xor(x, xs[j]), Xor(xs[i], xs[j])),
                lagrange_basis(xs, i, x, j - 1))

RECURSIVE interpolate_byte(_, _, _, _)
interpolate_byte(coef, ys, p, i) ==
    IF i = 0 THEN 0
    ELSE Xor(gf_mul(ys[i][p], coef[i]), interpolate_byte(coef, ys, p, i - 1))

\* the value at x of the polynomial through the points (xs[i], ys[i]),
\* byte by byte
interpolate(xs, ys, x) ==
    LET n == Len(xs)
        len == Len(ys[1])
        coef == SubSeq([i \in 1..n |-> lagrange_basis(xs, i, x, n)], 1, n)
    IN  SubSeq([p \in 1..len |-> interpolate_byte(coef, ys, p, n)], 1, len)

DIGEST_INDEX == 254
SECRET_INDEX == 255

RECURSIVE WeightedSum(_, _, _)
WeightedSum(s, k, i) ==
    IF i = 0 THEN 0
    ELSE (k + 2 * i) * s[i] + WeightedSum(s, k, i - 1)

\* stand-in for the first four bytes of HMAC-SHA256(random_data, shared_secret)
create_digest(random_data, shared_secret) ==
    SubSeq([j \in 1..4 |->
               (WeightedSum(shared_secret, j, Len(shared_secret))
                + WeightedSum(random_data, 3 * j + 1, Len(random_data))
                + 101 * j + 43) % 256], 1, 4)

----------------------------------------------------------------------------
(* The random number generator: a stream of bytes fixed by its seed.  A    *)
(* generator value is the seed and the number of bytes drawn so far.       *)

RandomByte(sd, k) == (sd + 17 * k + (k \div 7) * 5) % 256

NewRng(sd) == [seed |-> sd, pos |-> 0, draws |-> <<>>]

\* fill_random_data on a buffer of n bytes: the bytes, and the generator after
random_data(rng, n) ==
    SubSeq([k \in 1..n |-> RandomByte(rng.seed, rng.pos + k - 1)], 1, n)

advance(rng, n) ==
    [seed |-> rng.seed, pos |-> rng.pos + n, draws |-> Append(rng.draws, n)]

----------------------------------------------------------------------------
(* bc_shamir::split_secret and bc_shamir::recover_secret *)

validate_parameters(threshold, share_count, secret_length) ==
    IF share_count > MAX_SHARE_COUNT THEN "ShamirError(TooManyShares)"
    ELSE IF threshold < 1 \/ threshold > share_count
        THEN "ShamirError(InvalidThreshold)"
    ELSE IF secret_length > MAX_SECRET_LEN THEN "ShamirError(SecretTooLong)"
    ELSE IF secret_length < MIN_SECRET_LEN THEN "ShamirError(SecretTooShort)"
    ELSE IF secret_length % 2 # 0 THEN "ShamirError(SecretNotEvenLen)"
    ELSE "none"

\* the rng after k buffers of n bytes each were filled
RECURSIVE advance_by(_, _, _)
advance_by(rng, k, n) ==
    IF k = 0 THEN rng ELSE advance(advance_by(rng, k - 1, n), n)

\* split_secret: [res |-> Ok(shares) or Err, rng |-> the generator after]
split_secret(threshold, share_count, data, rng) ==
    LET len == Len(data)
        e == validate_parameters(threshold, share_count, len)
    IN  IF e # "none" THEN [res |-> Err(e), rng |-> rng]
        ELSE IF threshold = 1
            THEN [res |-> Ok(SubSeq([i \in 1..share_count |-> data],
                                    1, share_count)),
                  rng |-> rng]
        ELSE
            LET nrand == threshold - 2
                rand == SubSeq([i \in 1..nrand |->
                            random_data(advance_by(rng, i - 1, len), len)],
                               1, nrand)
                rng1 == advance_by(rng, nrand, len)
                tail == random_data(rng1, len - 4)
                rng2 == advance(rng1, len - 4)
                digest == create_digest(tail, data) \o tail
                xs == [i \in 1..threshold |->
                          IF i <= nrand THEN i - 1
                          ELSE IF i = nrand + 1 THEN DIGEST_INDEX
                          ELSE SECRET_INDEX]
                ys == rand \o <<digest, data>>
            IN  [res |-> Ok(SubSeq([i \in 1..share_count |->
                                       IF i <= nrand THEN rand[i]
                                       ELSE interpolate(xs, ys, i - 1)],
                                   1, share_count)),
                 rng |-> rng2]

\* the end of recover_secret: the digest share against the recovered secret
verify_digest(digest, sec) ==
    IF SubSeq(digest, 1, 4) # create_digest(SubSeq(digest, 5, Len(digest)), sec)
        THEN Err("ShamirError(ChecksumFailure)")
    ELSE Ok(sec)

recover_secret(indexes, shares) ==
    LET threshold == Len(shares) IN
    IF threshold = 0 \/ Len(indexes) # threshold
        THEN Err("ShamirError(InvalidThreshold)")
    ELSE
        LET share_length == Len(shares[1])
            e == validate_parameters(threshold, threshold, share_length)
        IN  IF e # "none" THEN Err(e)
            ELSE IF \E i \in 1..threshold : Len(shares[i]) # share_length
                THEN Err("ShamirError(SharesUnequalLength)")
            ELSE IF threshold = 1 THEN Ok(shares[1])
            ELSE verify_digest(interpolate(indexes, shares, DIGEST_INDEX),
                               interpolate(indexes, shares, SECRET_INDEX))

----------------------------------------------------------------------------
(* secret.rs, spec.rs *)

\* Secret::new without the lower bound on the length
Secret_new_no_minimum(data) ==
    IF Len(data) > MAX_SECRET_LEN THEN Err("SecretTooLong")
    ELSE IF Len(data) % 2 # 0 THEN Err("SecretLengthNotEven")
    ELSE Ok(data)

\* Secret::new without the test of the parity of the length
Secret_new_any_parity(data) ==
    IF Len(data) < MIN_SECRET_LEN THEN Err("SecretTooShort")
    ELSE IF Len(data) > MAX_SECRET_LEN THEN Err("SecretTooLong")
    ELSE Ok(data)

\* Secret::new: a Secret is its byte sequence
Secret_new(data) ==
    LET len == Len(data) IN
    IF len < MIN_SECRET_LEN THEN Err("SecretTooShort")
    ELSE IF len > MAX_SECRET_LEN THEN Err("SecretTooLong")
    ELSE IF len % 2 # 0 THEN Err("SecretLengthNotEven")
    ELSE Ok(data)

GroupSpec_new(member_threshold, member_count) ==
    IF member_count = 0 THEN Err("MemberCountInvalid")
    ELSE IF member_count > MAX_SHARE_COUNT THEN Err("MemberCountInvalid")
    ELSE IF member_threshold > member_count THEN Err("MemberThresholdInvalid")
    ELSE Ok([member_threshold |-> member_threshold,
             member_count |-> member_count])

\* Spec::new that tests the number of groups before the group threshold
Spec_new_count_first(group_threshold, groups) ==
    IF Len(groups) > MAX_SHARE_COUNT THEN Err("GroupCountInvalid")
    ELSE IF group_threshold = 0 THEN Err("GroupThresholdInvalid")
    ELSE IF group_threshold > Len(groups) THEN Err("GroupThresholdInvalid")
    ELSE Ok([group_threshold |-> group_threshold, groups |-> groups])

Spec_new(group_threshold, groups) ==
    IF group_threshold = 0 THEN Err("GroupThresholdInvalid")
    ELSE IF group_threshold > Len(groups) THEN Err("GroupThresholdInvalid")
    ELSE IF Len(groups) > MAX_SHARE_COUNT THEN Err("GroupCountInvalid")
    ELSE Ok([group_threshold |-> group_threshold, groups |-> groups])

group_count(s) == Len(s.groups)

RECURSIVE SumMemberCounts(_, _)
SumMemberCounts(groups, k) ==
    IF k = 0 THEN 0
    ELSE groups[k].member_count + SumMemberCounts(groups, k - 1)

share_count(s) == SumMemberCounts(s.groups, Len(s.groups))

----------------------------------------------------------------------------
(* share.rs and the wire codec of encoding.rs *)

\* SSKRShare::new(identifier, group_index, group_threshold, group_count,
\*                member_index, member_threshold, value)
SSKRShare_new(id, gi, gt, gc, mi, mt, value) ==
    [identifier |-> id,
     group_index |-> gi,
     group_threshold |-> gt,
     group_count |-> gc,
     member_index |-> mi,
     member_threshold |-> mt,
     value |-> value]

\* x & 0xf on usize, for x >= -1 (0 - 1 wraps to all ones)
Low4(x) == (x + 16) % 16

\* serialize_share that stores the thresholds and the count as they are
serialize_share_unbiased(share) ==
    <<(share.identifier \div 256) % 256, share.identifier % 256,
      (Low4(share.group_threshold) * 16 + Low4(share.group_count)) % 256,
      (Low4(share.group_index) * 16 + Low4(share.member_threshold)) % 256,
      Low4(share.member_index)>>
    \o share.value

serialize_share(share) ==
    LET id == share.identifier
        gt == Low4(share.group_threshold - 1)
        gc == Low4(share.group_count - 1)
        gi == Low4(share.group_index)
        mt == Low4(share.member_threshold - 1)
        mi == Low4(share.member_index)
        id1 == id \div 256
        id2 == id % 256
    IN  <<id1 % 256, id2, (gt * 16 + gc) % 256, (gi * 16 + mt) % 256, mi>>
        \o share.value

\* deserialize_share without the check of the reserved nibble
deserialize_share_unreserved(source) ==
    IF Len(source) < METADATA_SIZE_BYTES THEN Err("ShareLengthInvalid")
    ELSE IF (source[3] \div 16) + 1 > (source[3] % 16) + 1
        THEN Err("GroupThresholdInvalid")
    ELSE IF ~Secret_new(SubSeq(source, METADATA_SIZE_BYTES + 1,
                               Len(source))).ok
        THEN Err(Secret_new(SubSeq(source, METADATA_SIZE_BYTES + 1,
                                   Len(source))).err)
    ELSE Ok(SSKRShare_new(source[1] * 256 + source[2], source[4] \div 16,
                (source[3] \div 16) + 1, (source[3] % 16) + 1,
                source[5] % 16, (source[4] % 16) + 1,
                SubSeq(source, METADATA_SIZE_BYTES + 1, Len(source))))

deserialize_share(source) ==
    IF Len(source) < METADATA_SIZE_BYTES THEN Err("ShareLengthInvalid")
    ELSE
        LET group_threshold == (source[3] \div 16) + 1
            group_count_ == (source[3] % 16) + 1
        IN  IF group_threshold > group_count_ THEN Err("GroupThresholdInvalid")
            ELSE
                LET identifier == source[1] * 256 + source[2]
                    group_index == source[4] \div 16
                    member_threshold == (source[4] % 16) + 1
                    reserved == source[5] \div 16
                IN  IF reserved # 0 THEN Err("ShareReservedBitsInvalid")
                    ELSE
                        LET member_index == source[5] % 16
                            value == Secret_new(SubSeq(source,
                                         METADATA_SIZE_BYTES + 1, Len(source)))
                        IN  IF ~value.ok THEN Err(value.err)
                            ELSE Ok(SSKRShare_new(identifier, group_index,
                                        group_threshold, group_count_,
                                        member_index, member_threshold,
                                        value.val))

----------------------------------------------------------------------------
(* generate_shares and sskr_generate_using *)

\* the first error of Secret::new on the shares of a group, or "none"
RECURSIVE first_secret_error(_, _)
first_secret_error(shares, j) ==
    IF j > Len(shares) THEN "none"
    ELSE IF ~Secret_new(shares[j]).ok THEN Secret_new(shares[j]).err
    ELSE first_secret_error(shares, j + 1)

\* member_sskr_shares with the group index and the member index exchanged
member_sskr_shares_exchanged(sp, identifier, k, shares) ==
    SubSeq([j \in 1..Len(shares) |->
               SSKRShare_new(identifier, j - 1, sp.group_threshold,
                   group_count(sp), k - 1, sp.groups[k].member_threshold,
                   shares[j])],
           1, Len(shares))

\* the SSKRShares of group k (from 1) made of the member shares
member_sskr_shares(sp, identifier, k, shares) ==
    SubSeq([j \in 1..Len(shares) |->
               SSKRShare_new(identifier, k - 1, sp.group_threshold,
                   group_count(sp), j - 1, sp.groups[k].member_threshold,
                   shares[j])],
           1, Len(shares))

\* the loop of generate_shares over the groups k..: the member shares of
\* the groups, or the first error
RECURSIVE generate_groups(_, _, _, _, _, _)
RECURSIVE generate_group(_, _, _, _, _, _)
generate_group(sp, identifier, group_secrets, k, acc, split) ==
    IF ~split.res.ok THEN [res |-> Err(split.res.err), rng |-> split.rng]
    ELSE IF first_secret_error(split.res.val, 1) # "none"
        THEN [res |-> Err(first_secret_error(split.res.val, 1)),
              rng |-> split.rng]
    ELSE generate_groups(sp, identifier, group_secrets, split.rng, k + 1,
             Append(acc, member_sskr_shares(sp, identifier, k, split.res.val)))

generate_groups(sp, identifier, group_secrets, rng, k, acc) ==
    IF k > Len(sp.groups) THEN [res |-> Ok(acc), rng |-> rng]
    ELSE generate_group(sp, identifier, group_secrets, k, acc,
             split_secret(sp.groups[k].member_threshold,
                          sp.groups[k].member_count, group_secrets[k], rng))

\* generate_shares after the split of the master secret
split_groups(sp, bytes, top) ==
    IF ~top.res.ok THEN [res |-> Err(top.res.err), rng |-> top.rng]
    ELSE generate_groups(sp, bytes[1] * 256 + bytes[2], top.res.val, top.rng,
                         1, <<>>)

\* generate_shares that splits the master secret before it draws the
\* identifier
generate_shares_split_first(sp, master_secret, rng) ==
    split_groups(sp,
        random_data(split_secret(sp.group_threshold, group_count(sp),
                                 master_secret, rng).rng, 2),
        [res |-> split_secret(sp.group_threshold, group_count(sp),
                              master_secret, rng).res,
         rng |-> advance(split_secret(sp.group_threshold, group_count(sp),
                                      master_secret, rng).rng, 2)])

generate_shares(sp, master_secret, rng) ==
    split_groups(sp, random_data(rng, 2),
        split_secret(sp.group_threshold, group_count(sp), master_secret,
                     advance(rng, 2)))

\* the serialization of the shares of all groups
serialize_groups(g) ==
    IF ~g.res.ok
        THEN [ok |-> FALSE, val |-> <<>>, err |-> g.res.err,
              draws |-> g.rng.draws]
    ELSE [ok |-> TRUE,
          val |-> [i \in 1..Len(g.res.val) |->
                      [j \in 1..Len(g.res.val[i]) |->
                          serialize_share(g.res.val[i][j])]],
          err |-> "none",
          draws |-> g.rng.draws]

\* Result<Vec<Vec<Vec<u8>>>, SSKRError>, with the draws made from the rng
sskr_generate_using(sp, master_secret, rng) ==
    serialize_groups(generate_shares(sp, master_secret, rng))

----------------------------------------------------------------------------
(* combine_shares and sskr_combine *)

Group_new(group_index, member_threshold) ==
    [group_index |-> group_index,
     member_threshold |-> member_threshold,
     member_indexes |-> <<>>,
     member_shares |-> <<>>]

\* scan_groups with a bucket that takes every share of its group
RECURSIVE scan_groups_uncapped(_, _, _, _)
scan_groups_uncapped(groups, share, k, found) ==
    IF k > Len(groups) THEN [err |-> "none", groups |-> groups, found |-> found]
    ELSE IF share.group_index # groups[k].group_index
        THEN scan_groups_uncapped(groups, share, k + 1, found)
    ELSE IF share.member_threshold # groups[k].member_threshold
        THEN [err |-> "MemberThresholdInvalid", groups |-> groups,
              found |-> TRUE]
    ELSE IF \E i \in 1..Len(groups[k].member_indexes) :
                share.member_index = groups[k].member_indexes[i]
        THEN [err |-> "DuplicateMemberIndex", groups |-> groups, found |-> TRUE]
    ELSE scan_groups_uncapped(
            [groups EXCEPT ![k] =
                [@ EXCEPT !.member_indexes = Append(@, share.member_index),
                          !.member_shares = Append(@, share.value)]],
            share, k + 1, TRUE)

\* scan_groups that compares the member thresholds only while the bucket
\* takes shares
RECURSIVE scan_groups_open_only(_, _, _, _)
scan_groups_open_only(groups, share, k, found) ==
    IF k > Len(groups) THEN [err |-> "none", groups |-> groups, found |-> found]
    ELSE IF share.group_index # groups[k].group_index
        THEN scan_groups_open_only(groups, share, k + 1, found)
    ELSE IF Len(groups[k].member_indexes) >= groups[k].member_threshold
        THEN scan_groups_open_only(groups, share, k + 1, TRUE)
    ELSE IF share.member_threshold # groups[k].member_threshold
        THEN [err |-> "MemberThresholdInvalid", groups |-> groups,
              found |-> TRUE]
    ELSE IF \E i \in 1..Len(groups[k].member_indexes) :
                share.member_index = groups[k].member_indexes[i]
        THEN [err |-> "DuplicateMemberIndex", groups |-> groups, found |-> TRUE]
    ELSE scan_groups_open_only(
            [groups EXCEPT ![k] =
                [@ EXCEPT !.member_indexes = Append(@, share.member_index),
                          !.member_shares = Append(@, share.value)]],
            share, k + 1, TRUE)

\* one pass of the inner loop over the groups k..Len(groups) for one share
RECURSIVE scan_groups(_, _, _, _)
scan_groups(groups, share, k, found) ==
    IF k > Len(groups) THEN [err |-> "none", groups |-> groups, found |-> found]
    ELSE
        LET group == groups[k] IN
        IF share.group_index # group.group_index
            THEN scan_groups(groups, share, k + 1, found)
        ELSE IF share.member_threshold # group.member_threshold
            THEN [err |-> "MemberThresholdInvalid", groups |-> groups,
                  found |-> TRUE]
        ELSE IF \E i \in 1..Len(group.member_indexes) :
                    share.member_index = group.member_indexes[i]
            THEN [err |-> "DuplicateMemberIndex", groups |-> groups,
                  found |-> TRUE]
        ELSE IF Len(group.member_indexes) < group.member_threshold
            THEN scan_groups(
                    [groups EXCEPT ![k] =
                        [group EXCEPT
                            !.member_indexes = Append(@, share.member_index),
                            !.member_shares = Append(@, share.value)]],
                    share, k + 1, TRUE)
        ELSE scan_groups(groups, share, k + 1, TRUE)

\* the state of the loop of combine_shares before its first iteration
LoopStart ==
    [err |-> "none", identifier |-> 0, group_threshold |-> 0,
     group_count |-> 0, secret_len |-> 0, next_group |-> 0, groups |-> <<>>]

\* after_scan that lets a repeated member index pass
after_scan_no_duplicate(st1, share, scan) ==
    IF scan.err # "none" /\ scan.err # "DuplicateMemberIndex"
        THEN [st1 EXCEPT !.err = scan.err]
    ELSE IF ~scan.found
        THEN [st1 EXCEPT
                !.groups = Append(scan.groups,
                    [Group_new(share.group_index, share.member_threshold)
                        EXCEPT !.member_indexes = <<share.member_index>>,
                               !.member_shares = <<share.value>>]),
                !.next_group = @ + 1]
    ELSE [st1 EXCEPT !.groups = scan.groups]

\* after_scan that puts a new group before the groups opened so far
after_scan_push_front(st1, share, scan) ==
    IF scan.err # "none" THEN [st1 EXCEPT !.err = scan.err]
    ELSE IF ~scan.found
        THEN [st1 EXCEPT
                !.groups =
                    <<[Group_new(share.group_index, share.member_threshold)
                          EXCEPT !.member_indexes = <<share.member_index>>,
                                 !.member_shares = <<share.value>>]>>
                    \o scan.groups,
                !.next_group = @ + 1]
    ELSE [st1 EXCEPT !.groups = scan.groups]

\* the end of one iteration: a new group is pushed if none matched
after_scan(st1, share, scan) ==
    IF scan.err # "none" THEN [st1 EXCEPT !.err = scan.err]
    ELSE IF ~scan.found
        THEN [st1 EXCEPT
                !.groups = Append(scan.groups,
                    [Group_new(share.group_index, share.member_threshold)
                        EXCEPT !.member_indexes = <<share.member_index>>,
                               !.member_shares = <<share.value>>]),
                !.next_group = @ + 1]
    ELSE [st1 EXCEPT !.groups = scan.groups]

\* process_share without the comparison of the common metadata
process_share_unchecked(st, share, i) ==
    after_scan(
        IF i = 0
        THEN [st EXCEPT !.identifier = share.identifier,
                        !.group_count = share.group_count,
                        !.group_threshold = share.group_threshold,
                        !.secret_len = Len(share.value)]
        ELSE st,
        share, scan_groups(st.groups, share, 1, FALSE))

\* one iteration of the loop of combine_shares, on share number i (from 0)
process_share(st, share, i) ==
    LET st1 == IF i = 0
               THEN [st EXCEPT !.identifier = share.identifier,
                               !.group_count = share.group_count,
                               !.group_threshold = share.group_threshold,
                               !.secret_len = Len(share.value)]
               ELSE st
    IN  IF i # 0 /\ (share.identifier # st.identifier
                     \/ share.group_threshold # st.group_threshold
                     \/ share.group_count # st.group_count
                     \/ Len(share.value) # st.secret_len)
            THEN [st EXCEPT !.err = "ShareSetInvalid"]
        ELSE
            after_scan(st1, share, scan_groups(st1.groups, share, 1, FALSE))

\* the loop of combine_shares over the first n shares; it stops at an error
next_share(st, share, i) ==
    IF st.err # "none" THEN st ELSE process_share(st, share, i)

RECURSIVE combine_loop(_, _)
combine_loop(shares, n) ==
    IF n = 0 THEN LoopStart
    ELSE next_share(combine_loop(shares, n - 1), shares[n], n - 1)

GroupCall(group) ==
    [level |-> "group", group_index |-> group.group_index,
     member_threshold |-> group.member_threshold,
     indexes |-> group.member_indexes]

MasterCall(indexes) ==
    [level |-> "master", group_index |-> 0, member_threshold |-> 0,
     indexes |-> indexes]

\* the recovery loop over the groups k..: the calls made to recover_secret
\* and the master indexes and shares, or the first error
RECURSIVE recover_groups(_, _, _, _, _)
RECURSIVE recover_group(_, _, _, _, _, _)
recover_group(groups, k, master_indexes, master_shares, calls, group_secret) ==
    IF ~group_secret.ok
        THEN [err |-> group_secret.err, master_indexes |-> master_indexes,
              master_shares |-> master_shares, calls |-> calls]
    ELSE recover_groups(groups, k + 1,
             Append(master_indexes, groups[k].group_index),
             Append(master_shares, group_secret.val), calls)

recover_groups(groups, k, master_indexes, master_shares, calls) ==
    IF k > Len(groups)
        THEN [err |-> "none", master_indexes |-> master_indexes,
              master_shares |-> master_shares, calls |-> calls]
    ELSE
        recover_group(groups, k, master_indexes, master_shares,
            Append(calls, GroupCall(groups[k])),
            recover_secret(groups[k].member_indexes,
                           groups[k].member_shares))

Failure(e, calls) == [ok |-> FALSE, val |-> <<>>, err |-> e, calls |-> calls]

\* the end of combine_shares: Secret::new on the recovered master secret
master_secret_of(master, calls) ==
    IF ~master.ok THEN Failure(master.err, calls)
    ELSE IF ~Secret_new(master.val).ok
        THEN Failure(Secret_new(master.val).err, calls)
    ELSE [ok |-> TRUE, val |-> Secret_new(master.val).val, err |-> "none",
          calls |-> calls]

\* combine_shares after the recovery loop over the groups
recover_master(rec) ==
    IF rec.err # "none" THEN Failure(rec.err, rec.calls)
    ELSE master_secret_of(
             recover_secret(rec.master_indexes, rec.master_shares),
             Append(rec.calls, MasterCall(rec.master_indexes)))

\* combine_groups without the comparison of next_group with group_threshold
combine_groups_unchecked(st) ==
    IF st.err # "none" THEN Failure(st.err, <<>>)
    ELSE recover_master(recover_groups(st.groups, 1, <<>>, <<>>, <<>>))

\* combine_shares after its loop over the shares
combine_groups(st) ==
    IF st.err # "none" THEN Failure(st.err, <<>>)
    ELSE IF st.next_group < st.group_threshold
        THEN Failure("NotEnoughGroups", <<>>)
    ELSE recover_master(recover_groups(st.groups, 1, <<>>, <<>>, <<>>))

\* Result<Secret, SSKRError>, with the calls made to recover_secret
combine_shares(shares) ==
    IF Len(shares) = 0 THEN Failure("SharesEmpty", <<>>)
    ELSE combine_groups(combine_loop(shares, Len(shares)))

\* the index of the first element that fails deserialization, or 0
FirstMalformed(shares) ==
    LET bad == {i \in 1..Len(shares) : ~deserialize_share(shares[i]).ok}
    IN  IF bad = {} THEN 0 ELSE CHOOSE i \in bad : \A j \in bad : i <= j

\* sskr_combine that leaves out the elements that fail deserialization
sskr_combine_skipping(shares) ==
    combine_shares(
        SubSeq([i \in 1..Len(SelectSeq(shares,
                                 LAMBDA b : deserialize_share(b).ok)) |->
                   deserialize_share(
                       SelectSeq(shares,
                           LAMBDA b : deserialize_share(b).ok)[i]).val],
               1, Len(SelectSeq(shares, LAMBDA b : deserialize_share(b).ok))))

sskr_combine(shares) ==
    LET m == FirstMalformed(shares) IN
    IF m # 0 THEN Failure(deserialize_share(shares[m]).err, <<>>)
    ELSE combine_shares(SubSeq([i \in 1..Len(shares) |->
                                   deserialize_share(shares[i]).val],
                               1, Len(shares)))

----------------------------------------------------------------------------
(* The callers.  Spec: one run of sskr_generate_using, then shares of the  *)
(* run are collected one at a time and sskr_combine is called on the       *)
(* collection after each.                                                   *)

Range(f) == {f[i] : i \in DOMAIN f}

NoResult == Failure("not called", <<>>)

\* secrets: byte patterns of valid lengths
Pattern(len, a, b) == [i \in 1..len |-> (a * i + b) % 256]

\* the secrets and rng seeds of the runs: <<secret, seed>>
Draws == {<<Pattern(16, 37, 11), 3>>, <<Pattern(18, 201, 90), 164>>}

GroupSpecs ==
    {GroupSpec_new(mt, mc).val :
        <<mt, mc>> \in {a \in (0..MaxShares) \X (1..MaxShares) :
                           GroupSpec_new(a[1], a[2]).ok}}

\* the lists of GroupSpecs with at most budget members in all
RECURSIVE GroupLists(_)
GroupLists(budget) ==
    {<<>>} \cup
    UNION {{<<g>> \o l : l \in GroupLists(budget - g.member_count)} :
              g \in {h \in GroupSpecs : h.member_count <= budget}}

\* the Specs that Spec::new returns with at most MaxShares shares in all
Specs ==
    {Spec_new(a[1], a[2]).val :
        a \in {b \in (0..MaxShares) \X GroupLists(MaxShares) :
                  Spec_new(b[1], b[2]).ok}}

NoSpec == [group_threshold |-> 0, groups |-> <<>>]

NoArgs == [fn |-> "none"]

Init ==
    /\ spec \in Specs
    /\ \E d \in Draws : secret = d[1] /\ seed = d[2]
    /\ runs = <<>>
    /\ input = <<>>
    /\ result = NoResult
    /\ wire = <<>>
    /\ parsed = Err("not called")
    /\ args = NoArgs
    /\ made = Err("not called")
    /\ pc = "start"

\* sskr_generate_using(&spec, &secret, &mut rng)
Generate ==
    /\ pc = "start"
    /\ runs' = <<sskr_generate_using(spec, secret, NewRng(seed))>>
    /\ pc' = IF runs'[1].ok THEN "generated" ELSE "failed"
    /\ UNCHANGED <<spec, secret, seed, input, result, wire, parsed, args, made>>

\* share m of group g of the run (g, m from 1), not yet in the collection,
\* is added to it and sskr_combine is called on the collection
Supply(g, m) ==
    /\ pc = "generated"
    /\ Len(input) < MaxInput
    /\ LET share == runs[1].val[g][m]
       IN  /\ share \notin Range(input)
           /\ input' = Append(input, share)
           /\ result' = sskr_combine(input')
    /\ UNCHANGED <<spec, secret, seed, runs, wire, parsed, pc, args, made>>

Next ==
    \/ Generate
    \/ \E g \in 1..MaxShares : \E m \in 1..MaxShares :
           /\ pc = "generated"
           /\ g <= Len(runs[1].val)
           /\ m <= Len(runs[1].val[g])
           /\ Supply(g, m)

Spec == Init /\ [][Next]_vars

----------------------------------------------------------------------------
(* What the collection holds, read from its shares *)

\* the shares of the collection, for a collection whose elements deserialize
Shares ==
    SubSeq([i \in 1..Len(input) |-> deserialize_share(input[i]).val],
           1, Len(input))

\* the group indexes represented among the shares sh
GroupsIn(sh) == {sh[i].group_index : i \in 1..Len(sh)}

\* the member indexes of group g among the shares sh
MembersIn(sh, g) ==
    {sh[i].member_index : i \in {j \in 1..Len(sh) : sh[j].group_index = g}}

\* the groups that hold at least their memberThreshold shares among sh
FullGroups(sh) ==
    {g \in GroupsIn(sh) :
        Cardinality(MembersIn(sh, g)) >= spec.groups[g + 1].member_threshold}

\* at least groupThreshold groups are represented and all are full
Quorum(sh) ==
    /\ Cardinality(GroupsIn(sh)) >= spec.group_threshold
    /\ FullGroups(sh) = GroupsIn(sh)

\* at least groupThreshold groups are full and some other group is not
QuorumAndMore(sh) ==
    /\ Cardinality(FullGroups(sh)) >= spec.group_threshold
    /\ FullGroups(sh) # GroupsIn(sh)

\* the group of the last share of sh holds memberThreshold shares without it
LastOverSupplied(sh) ==
    Cardinality(MembersIn(sh, sh[Len(sh)].group_index)) - 1
        >= sh[Len(sh)].member_threshold

\* the collection without its last element
Earlier == SubSeq(input, 1, Len(input) - 1)

\* a successful outcome before stays successful with the same secret
Kept(before, after) ==
    before.ok => (after.ok /\ after.val = before.val)

----------------------------------------------------------------------------
(* Claims on Spec *)

\* C1 (round trip): whenever the collection holds shares of at least
\* groupThreshold groups and every group it represents holds at least its
\* memberThreshold shares, sskr_combine returns Ok with the original secret.
C1_RoundTrip ==
    (pc = "generated" /\ input # <<>> /\ Quorum(Shares))
    => (result.ok /\ result.val = secret)

\* C2 (member quorum necessity): sskr_combine returns Ok only when at least
\* groupThreshold of the groups represented in the collection hold at least
\* their memberThreshold shares.
C2_MemberQuorum ==
    (pc = "generated" /\ result.ok)
    => Cardinality(FullGroups(Shares)) >= spec.group_threshold

\* C3 (group quorum necessity): a non-empty collection of distinct shares of
\* one run that represents fewer than groupThreshold groups makes
\* sskr_combine fail with NotEnoughGroups, and recover_secret is not called.
C3_NotEnoughGroups ==
    (/\ pc = "generated"
     /\ input # <<>>
     /\ Cardinality(GroupsIn(Shares)) < spec.group_threshold)
    => (/\ ~result.ok
        /\ result.err = "NotEnoughGroups"
        /\ result.calls = <<>>)

\* C3 witness: three shares of fewer than groupThreshold groups were combined
C3_Witness ==
    /\ pc = "generated"
    /\ Len(input) >= 3
    /\ Cardinality(GroupsIn(Shares)) < spec.group_threshold
    /\ result.err = "NotEnoughGroups"

\* C4 (undecodable groups are ignored): when at least groupThreshold groups
\* of the collection hold their memberThreshold shares and the collection
\* also holds shares of groups that do not, sskr_combine returns Ok with the
\* original secret.
C4_UndecodableIgnored ==
    (pc = "generated" /\ input # <<>> /\ QuorumAndMore(Shares))
    => (result.ok /\ result.val = secret)

\* C5 (member over-supply): a share appended to a collection in which its
\* group already holds memberThreshold shares leaves a successful
\* sskr_combine successful with the same secret; and all the shares of the
\* single group of a Spec combine to the original secret.
C5_OverSupply ==
    /\ (pc = "generated" /\ Len(input) >= 2 /\ LastOverSupplied(Shares))
       => Kept(sskr_combine(Earlier), result)
    /\ (/\ pc = "generated"
        /\ Len(spec.groups) = 1
        /\ Len(input) = spec.groups[1].member_count)
       => (result.ok /\ result.val = secret)

\* C5 witness: all three shares of a 1-of-3 group were combined
C5_Witness ==
    /\ pc = "generated"
    /\ Len(spec.groups) = 1
    /\ spec.groups[1].member_threshold = 1
    /\ Len(input) = 3
    /\ result.ok
    /\ result.val = secret

----------------------------------------------------------------------------
(* SpecGenerate: sskr_generate_using is called, and called again with the *)
(* same Spec, Secret and rng.                                              *)

\* sskr_generate_using(&spec, &secret, &mut rng) with an rng in the state
\* of the rng of the first call
Regenerate ==
    /\ pc = "generated"
    /\ Len(runs) = 1
    /\ runs' = Append(runs, sskr_generate_using(spec, secret, NewRng(seed)))
    /\ pc' = "regenerated"
    /\ UNCHANGED <<spec, secret, seed, input, result, wire, parsed, args, made>>

NextGenerate == Generate \/ Regenerate

SpecGenerate == Init /\ [][NextGenerate]_vars

\* the sizes of the buffers one split with threshold t of a secret of len
\* bytes fills from the rng
SplitDraws(t, len) ==
    IF t = 1 THEN <<>>
    ELSE SubSeq([i \in 1..(t - 1) |-> IF i = t - 1 THEN len - 4 ELSE len],
                1, t - 1)

RECURSIVE SumSeq(_, _)
SumSeq(q, n) == IF n = 0 THEN 0 ELSE q[n] + SumSeq(q, n - 1)

\* the draws of the member splits of the groups 1..k
RECURSIVE GroupDraws(_, _, _)
GroupDraws(sp, len, k) ==
    IF k = 0 THEN <<>>
    ELSE GroupDraws(sp, len, k - 1)
         \o SplitDraws(sp.groups[k].member_threshold, len)

\* the rng of seed sd after n bytes were drawn
RngAt(sd, n) == [NewRng(sd) EXCEPT !.pos = n]

\* the group secrets: the shares of the top-level split, made right after
\* the 2 bytes of the identifier
TopShares(sp, sec, sd) ==
    split_secret(sp.group_threshold, group_count(sp), sec, RngAt(sd, 2)).res.val

\* the member shares of group i: the split of top-level share i, made after
\* the top-level split and the member splits of the groups before i
MemberValues(sp, sec, sd, top, i) ==
    split_secret(sp.groups[i].member_threshold, sp.groups[i].member_count,
        top[i],
        RngAt(sd, 2 + SumSeq(SplitDraws(sp.group_threshold, Len(sec)),
                             Len(SplitDraws(sp.group_threshold, Len(sec))))
                    + SumSeq(GroupDraws(sp, Len(sec), i - 1),
                             Len(GroupDraws(sp, Len(sec), i - 1))))).res.val

\* the shares of a run carry the identifier id and the member values of the
\* splits of the top-level shares top
RunFollows(run, sp, sec, sd, id, top) ==
    \A i \in 1..Len(run.val) : \A j \in 1..Len(run.val[i]) :
        /\ deserialize_share(run.val[i][j]).val.identifier = id
        /\ deserialize_share(run.val[i][j]).val.value
               = MemberValues(sp, sec, sd, top, i)[j]

\* share j of group i of a run has the shape the Spec gives it
ShareShape(bytes, sh, first, sp, sec, i, j) ==
    /\ Len(bytes) = 5 + Len(sec)
    /\ sh.group_index = i - 1
    /\ sh.member_index = j - 1
    /\ sh.group_threshold = sp.group_threshold
    /\ sh.group_count = Len(sp.groups)
    /\ sh.member_threshold = sp.groups[i].member_threshold
    /\ sh.identifier = first.identifier
    /\ Len(sh.value) = Len(sec)

\* the number of serialized shares in the groups 1..k of a result
RECURSIVE CountShares(_, _)
CountShares(val, k) ==
    IF k = 0 THEN 0 ELSE Len(val[k]) + CountShares(val, k - 1)

----------------------------------------------------------------------------
(* Claims on SpecGenerate *)

\* C11 (generation shape): a successful sskr_generate_using returns one
\* sequence per group in group order, the i-th of memberCount_i serialized
\* shares of 5 + len(secret) bytes in member order; share j of group i
\* carries groupIndex i, memberIndex j, the Spec's groupThreshold and
\* groupCount, the memberThreshold of group i and the identifier of every
\* other share of the run; the shares number Spec.share_count() in all.
C11_GenerationShape ==
    (pc = "generated" /\ runs[1].ok) =>
        /\ Len(runs[1].val) = group_count(spec)
        /\ \A i \in 1..Len(runs[1].val) :
               /\ Len(runs[1].val[i]) = spec.groups[i].member_count
               /\ \A j \in 1..Len(runs[1].val[i]) :
                      /\ deserialize_share(runs[1].val[i][j]).ok
                      /\ ShareShape(runs[1].val[i][j],
                             deserialize_share(runs[1].val[i][j]).val,
                             deserialize_share(runs[1].val[1][1]).val,
                             spec, secret, i, j)
        /\ CountShares(runs[1].val, Len(runs[1].val)) = share_count(spec)

\* C11 witness: a run for a group of one member followed by a group of three
C11_Witness ==
    /\ pc = "generated"
    /\ runs[1].ok
    /\ Len(runs[1].val) = 2
    /\ Len(runs[1].val[1]) = 1
    /\ Len(runs[1].val[2]) = 3
    /\ share_count(spec) = 4

\* C18 (order of randomness consumption): the rng is first asked for 2
\* bytes, which form the identifier as byte0 * 256 + byte1; then the
\* top-level split draws; then the member split of each group in ascending
\* group index draws, on that group's top-level share; there is no other
\* draw, and a second run with the same Spec, Secret and rng returns the
\* same shares.
C18_DrawOrder ==
    /\ (pc \in {"generated", "regenerated"} /\ runs[1].ok) =>
           /\ runs[1].draws =
                  <<2>> \o SplitDraws(spec.group_threshold, Len(secret))
                        \o GroupDraws(spec, Len(secret), Len(spec.groups))
           /\ RunFollows(runs[1], spec, secret, seed,
                  RandomByte(seed, 0) * 256 + RandomByte(seed, 1),
                  TopShares(spec, secret, seed))
    /\ pc = "regenerated" => runs[2] = runs[1]

\* C18 witness: a second run was made of a Spec whose top-level split and
\* member splits all draw from the rng
C18_Witness ==
    /\ pc = "regenerated"
    /\ runs[1].ok
    /\ spec.group_threshold >= 2
    /\ \E i \in 1..Len(spec.groups) : spec.groups[i].member_threshold >= 3
    /\ Len(runs[1].draws) >= 4

----------------------------------------------------------------------------
(* SpecMixed: two runs of sskr_generate_using on the same Spec and Secret   *)
(* with different rng seeds; the collection may hold shares of either run,  *)
(* repeated shares, shares with altered metadata and damaged shares.        *)

MixedSpecs ==
    {Spec_new(1, <<GroupSpec_new(2, 2).val>>).val,
     Spec_new(1, <<GroupSpec_new(1, 2).val>>).val,
     Spec_new(2, <<GroupSpec_new(1, 1).val, GroupSpec_new(1, 1).val>>).val}

OtherSeed(sd) == (sd + 161) % 256

ForgeKinds ==
    {"group_threshold", "group_count", "member_threshold", "value_len"}

\* a serialized share with one item of metadata changed
Forged(bytes, kind) ==
    LET sh == deserialize_share(bytes).val IN
    IF kind = "group_threshold"
        THEN serialize_share([sh EXCEPT !.group_threshold =
                                 IF @ > 1 THEN @ - 1 ELSE @ + 1])
    ELSE IF kind = "group_count"
        THEN serialize_share([sh EXCEPT !.group_count = (@ % 16) + 1])
    ELSE IF kind = "member_threshold"
        THEN serialize_share([sh EXCEPT !.member_threshold = (@ % 16) + 1])
    ELSE bytes \o <<0, 0>>

\* byte 4 of a serialized share with its high nibble set to r
Tampered(bytes, r) == [bytes EXCEPT ![5] = 16 * r + (@ % 16)]

Truncated(bytes, n) == SubSeq(bytes, 1, n)

TamperNibbles == {1, 8}

TruncatedLens == {4, 19}

InitMixed ==
    /\ spec \in MixedSpecs
    /\ secret = Pattern(16, 37, 11)
    /\ seed = 3
    /\ runs = <<>>
    /\ input = <<>>
    /\ result = NoResult
    /\ wire = <<>>
    /\ parsed = Err("not called")
    /\ args = NoArgs
    /\ made = Err("not called")
    /\ pc = "start"

\* the second sskr_generate_using, with another rng
GenerateAgain ==
    /\ pc = "generated"
    /\ Len(runs) = 1
    /\ runs' = Append(runs,
                   sskr_generate_using(spec, secret, NewRng(OtherSeed(seed))))
    /\ pc' = "mixed"
    /\ UNCHANGED <<spec, secret, seed, input, result, wire, parsed, args, made>>

\* the byte sequence e is added to the collection and sskr_combine is
\* called on the collection
SupplyBytes(e) ==
    /\ pc = "mixed"
    /\ Len(input) < MixedInput
    /\ input' = Append(input, e)
    /\ result' = sskr_combine(input')
    /\ UNCHANGED <<spec, secret, seed, runs, wire, parsed, pc, args, made>>

\* share m of group g of run r
SupplyShare(r, g, m) == SupplyBytes(runs[r].val[g][m])

SupplyForged(g, m, kind) == SupplyBytes(Forged(runs[1].val[g][m], kind))

SupplyTampered(g, m, r) == SupplyBytes(Tampered(runs[1].val[g][m], r))

SupplyTruncated(g, m, n) == SupplyBytes(Truncated(runs[1].val[g][m], n))

NextMixed ==
    \/ Generate
    \/ GenerateAgain
    \/ \E g \in 1..2 : \E m \in 1..2 :
           /\ pc = "mixed"
           /\ g <= Len(runs[1].val)
           /\ m <= Len(runs[1].val[g])
           /\ \/ \E r \in 1..2 : SupplyShare(r, g, m)
              \/ \E kind \in ForgeKinds : SupplyForged(g, m, kind)
              \/ \E r \in TamperNibbles : SupplyTampered(g, m, r)
              \/ \E n \in TruncatedLens : SupplyTruncated(g, m, n)

SpecMixed == InitMixed /\ [][NextMixed]_vars

----------------------------------------------------------------------------
(* What a mixed collection holds *)

\* deserialize_share on element i of the collection
Parsed(i) == deserialize_share(input[i])

AllDeserialize == \A i \in 1..Len(input) : Parsed(i).ok

\* two shares agree on identifier, groupThreshold, groupCount, value length
SameCommon(a, b) ==
    /\ a.identifier = b.identifier
    /\ a.group_threshold = b.group_threshold
    /\ a.group_count = b.group_count
    /\ Len(a.value) = Len(b.value)

\* share i of sh arrives while fewer than its memberThreshold distinct
\* member indexes of its group stand before it
Accepted(sh, i) ==
    Cardinality({sh[k].member_index :
                    k \in {l \in 1..(i - 1) :
                              sh[l].group_index = sh[i].group_index}})
        < sh[i].member_threshold

\* among the first n shares of sh: one repeats the member index of an
\* accepted share of its group
RepeatsAccepted(sh, n) ==
    \E i \in 1..n : \E j \in 1..n :
        /\ i < j
        /\ sh[i].group_index = sh[j].group_index
        /\ sh[i].member_index = sh[j].member_index
        /\ Accepted(sh, i)

\* among the first n shares of sh: one repeats the member index of a share
\* of its group
Repeats(sh, n) ==
    \E i \in 1..n : \E j \in 1..n :
        /\ i < j
        /\ sh[i].group_index = sh[j].group_index
        /\ sh[i].member_index = sh[j].member_index

\* among the first n shares of sh: two of one group differ in memberThreshold
ThresholdsDiffer(sh, n) ==
    \E i \in 1..n : \E j \in 1..n :
        /\ sh[i].group_index = sh[j].group_index
        /\ sh[i].member_threshold # sh[j].member_threshold

\* the positions of the shares of sh that differ from the first in common
\* metadata
Mismatched(sh) == {i \in 1..Len(sh) : ~SameCommon(sh[1], sh[i])}

First(S) == CHOOSE i \in S : \A j \in S : i <= j

\* no share of sh before the first mismatching one fails the memberThreshold
\* or the duplicate check
CleanBeforeMismatch(sh) ==
    /\ ~ThresholdsDiffer(sh, First(Mismatched(sh)) - 1)
    /\ ~RepeatsAccepted(sh, First(Mismatched(sh)) - 1)

\* the serialized shares of all runs
Generated ==
    UNION {Range(runs[rg[1]].val[rg[2]]) :
              rg \in {x \in (1..Len(runs)) \X (1..2) :
                         runs[x[1]].ok /\ x[2] <= Len(runs[x[1]].val)}}

\* b is a generated share with its reserved nibble set to a nonzero value
IsTampered(b) ==
    /\ Len(b) >= METADATA_SIZE_BYTES
    /\ b[5] \div 16 # 0
    /\ [b EXCEPT ![5] = @ % 16] \in Generated

\* the element supplied last
Last == input[Len(input)]

\* the positions of the collection that hold such a share
TamperedAt == {i \in 1..Len(input) : IsTampered(input[i])}

\* every proper prefix of b shorter than 5 + MIN_SECRET_LEN bytes fails
\* deserialization, with ShareLengthInvalid when shorter than 5 bytes
ShortPrefixesFail(b) ==
    \A n \in 0..(METADATA_SIZE_BYTES + MIN_SECRET_LEN - 1) :
        n <= Len(b) =>
            /\ ~deserialize_share(SubSeq(b, 1, n)).ok
            /\ n < METADATA_SIZE_BYTES =>
                   deserialize_share(SubSeq(b, 1, n)).err = "ShareLengthInvalid"

----------------------------------------------------------------------------
(* Claims on SpecMixed *)

\* C6 as stated (duplicate rejection), on collections of well-formed
\* shares that agree on common metadata and, within a group, on
\* memberThreshold: whenever two of the shares are equal in groupIndex and
\* memberIndex, sskr_combine fails with DuplicateMemberIndex, wherever the
\* two stand and however many shares of the group precede them.
C6_Original ==
    (/\ pc = "mixed"
     /\ input # <<>>
     /\ AllDeserialize
     /\ Mismatched(Shares) = {}
     /\ ~ThresholdsDiffer(Shares, Len(input))
     /\ Repeats(Shares, Len(input)))
    => (~result.ok /\ result.err = "DuplicateMemberIndex")

\* C6 (duplicate rejection, amended): when every element deserializes, all
\* shares agree with the first on common metadata and the shares of a group
\* agree on memberThreshold, a share repeating the groupIndex and
\* memberIndex of an earlier share that was accepted into its bucket makes
\* sskr_combine fail with DuplicateMemberIndex.
C6_DuplicateOfAccepted ==
    (/\ pc = "mixed"
     /\ input # <<>>
     /\ AllDeserialize
     /\ Mismatched(Shares) = {}
     /\ ~ThresholdsDiffer(Shares, Len(input))
     /\ RepeatsAccepted(Shares, Len(input)))
    => (~result.ok /\ result.err = "DuplicateMemberIndex")

\* C6 witness: a share is repeated after another share of its group
C6_Witness ==
    /\ pc = "mixed"
    /\ Len(input) = 3
    /\ input[1] # input[2]
    /\ input[2] = input[3]
    /\ AllDeserialize
    /\ Shares[1].group_index = Shares[2].group_index
    /\ result.err = "DuplicateMemberIndex"

\* C7 as stated (common-metadata check): when every element deserializes
\* and a share after the first differs from the first in identifier,
\* groupThreshold, groupCount or value length, sskr_combine fails with
\* ShareSetInvalid.
C7_Original ==
    (/\ pc = "mixed"
     /\ input # <<>>
     /\ AllDeserialize
     /\ Mismatched(Shares) # {})
    => (~result.ok /\ result.err = "ShareSetInvalid")

\* C7 (common-metadata check, amended): when every element deserializes and
\* no share standing before the first mismatching share fails the
\* memberThreshold or duplicate check, sskr_combine fails with
\* ShareSetInvalid.
C7_ShareSetInvalid ==
    (/\ pc = "mixed"
     /\ input # <<>>
     /\ AllDeserialize
     /\ Mismatched(Shares) # {}
     /\ CleanBeforeMismatch(Shares))
    => (~result.ok /\ result.err = "ShareSetInvalid")

\* C7 witness: the third share is a share of the other run
C7_Witness ==
    /\ pc = "mixed"
    /\ Len(input) = 3
    /\ AllDeserialize
    /\ Shares[1].identifier = Shares[2].identifier
    /\ Shares[3].identifier # Shares[1].identifier
    /\ result.err = "ShareSetInvalid"

\* C8 as stated (tamper detection): sskr_combine on a collection that holds
\* a generated share with a nonzero reserved nibble fails with
\* ShareReservedBitsInvalid.
C8_Original ==
    (pc = "mixed" /\ TamperedAt # {})
    => (~result.ok /\ result.err = "ShareReservedBitsInvalid")

\* C8 (tamper detection, amended): every generated share has reserved
\* nibble 0 and fails deserialization with ShareReservedBitsInvalid once the
\* nibble is nonzero; sskr_combine on a collection holding such a share
\* fails, with ShareReservedBitsInvalid when every element before it
\* deserializes.  (The generated shares are read where they are supplied:
\* every element of a collection is the last element of an earlier one.)
C8_ReservedBits ==
    /\ (input # <<>> /\ Last \in Generated) =>
           /\ Last[5] \div 16 = 0
           /\ \A n \in 1..15 :
                  deserialize_share(Tampered(Last, n))
                      = Err("ShareReservedBitsInvalid")
    /\ (pc = "mixed" /\ TamperedAt # {})
       => /\ ~result.ok
          /\ (\A k \in 1..(First(TamperedAt) - 1) : Parsed(k).ok)
                 => result.err = "ShareReservedBitsInvalid"

\* C8 witness: a tampered share stands behind a share that deserializes
C8_Witness ==
    /\ pc = "mixed"
    /\ Len(input) >= 2
    /\ Parsed(1).ok
    /\ 2 \in TamperedAt
    /\ result.err = "ShareReservedBitsInvalid"

\* C9 (truncation detection): every byte sequence shorter than
\* 5 + MIN_SECRET_LEN fails deserialization, with ShareLengthInvalid when
\* shorter than 5 bytes, and sskr_combine on a collection holding one fails.
\* (The byte sequences are the prefixes of the element supplied last: every
\* element of a collection is the last element of an earlier one.)
C9_Truncation ==
    /\ input # <<>> => ShortPrefixesFail(Last)
    /\ (/\ pc = "mixed"
        /\ \E i \in 1..Len(input) :
               Len(input[i]) < METADATA_SIZE_BYTES + MIN_SECRET_LEN)
       => ~result.ok

\* C9 witness: a share cut to 19 bytes stands behind a whole share, and
\* sskr_combine has failed on the value being too short
C9_Witness ==
    /\ pc = "mixed"
    /\ Len(input) >= 2
    /\ Len(input[2]) = 19
    /\ Parsed(2).err = "SecretTooShort"
    /\ Parsed(1).ok
    /\ result.err = "SecretTooShort"

----------------------------------------------------------------------------
(* SpecCodec: a byte sequence is deserialized and the share it yields is    *)
(* serialized again.                                                         *)

CodecIds == {0, 4660, 65535}

CodecNibbles == {0, 1, 9, 15}

CodecValues ==
    {Pattern(16, 29, 5), Pattern(17, 29, 5), Pattern(32, 113, 250),
     Pattern(34, 113, 250), Pattern(14, 7, 1)}

Header(id, a, b, c, d, r, e) ==
    <<id \div 256, id % 256, 16 * a + b, 16 * c + d, 16 * r + e>>

InitCodec ==
    /\ \E id \in CodecIds : \E a \in CodecNibbles : \E b \in CodecNibbles :
       \E c \in CodecNibbles : \E d \in CodecNibbles : \E e \in CodecNibbles :
       \E r \in {0, 3} : \E v \in CodecValues :
           wire = Header(id, a, b, c, d, r, e) \o v
    /\ parsed = Err("not called")
    /\ args = NoArgs
    /\ made = Err("not called")
    /\ pc = "wire"
    /\ spec = NoSpec
    /\ secret = <<>>
    /\ seed = 0
    /\ runs = <<>>
    /\ input = <<>>
    /\ result = NoResult

\* deserialize_share(&wire)
Deserialize ==
    /\ pc = "wire"
    /\ parsed' = deserialize_share(wire)
    /\ pc' = "parsed"
    /\ UNCHANGED <<spec, secret, seed, runs, input, result, wire, args, made>>

\* serialize_share(&share) on the share that deserialize_share returned
Serialize ==
    /\ pc = "parsed"
    /\ parsed.ok
    /\ wire' = serialize_share(parsed.val)
    /\ pc' = "serialized"
    /\ UNCHANGED <<spec, secret, seed, runs, input, result, parsed, args, made>>

NextCodec == Deserialize \/ Serialize

SpecCodec == InitCodec /\ [][NextCodec]_vars

----------------------------------------------------------------------------
(* Claims on SpecCodec *)

----------------------------------------------------------------------------
(* SpecNew: the constructors are called with arguments of every kind *)

\* a list of n GroupSpecs, no two neighbours alike
GroupList(n, a) ==
    SubSeq([i \in 1..n |->
               [member_threshold |->
                    1 + ((a * i) % (((i - 1) % MAX_SHARE_COUNT) + 1)),
                member_count |-> ((i - 1) % MAX_SHARE_COUNT) + 1]],
           1, n)

\* the same list, last GroupSpec first
Reversed(l) == SubSeq([i \in 1..Len(l) |-> l[Len(l) + 1 - i]], 1, Len(l))

\* the arguments of the constructor calls
NewArgs ==
    {[fn |-> "GroupSpec::new", member_threshold |-> mt, member_count |-> mc] :
        mt \in 0..MaxArg, mc \in 0..MaxArg}
    \cup {[fn |-> "Spec::new", group_threshold |-> gt, groups |-> l] :
        gt \in 0..MaxArg,
        l \in {GroupList(n, 1) : n \in 0..MaxArg}
              \cup {Reversed(GroupList(n, 5)) : n \in 0..MaxArg}}
    \cup {[fn |-> "Secret::new", data |-> Pattern(n, a, 3)] :
        n \in 0..MaxData, a \in {7, 31}}
    \cup {[fn |-> "deserialize_share",
           data |-> Pattern(n, 11, 2),
           source |-> Header(id, 0, 1, 1, 1, 0, 1) \o Pattern(n, 11, 2)] :
        n \in 0..MaxData, id \in {0, 40000}}

InitNew ==
    /\ args \in NewArgs
    /\ made = Err("not called")
    /\ pc = "args"
    /\ spec = NoSpec
    /\ secret = <<>>
    /\ seed = 0
    /\ runs = <<>>
    /\ input = <<>>
    /\ result = NoResult
    /\ wire = <<>>
    /\ parsed = Err("not called")

\* GroupSpec::new(member_threshold, member_count)
NewGroupSpec ==
    /\ pc = "args"
    /\ args.fn = "GroupSpec::new"
    /\ made' = GroupSpec_new(args.member_threshold, args.member_count)
    /\ pc' = "made"
    /\ UNCHANGED <<spec, secret, seed, runs, input, result, wire, parsed, args>>

\* Spec::new(group_threshold, groups)
NewSpec ==
    /\ pc = "args"
    /\ args.fn = "Spec::new"
    /\ made' = Spec_new(args.group_threshold, args.groups)
    /\ pc' = "made"
    /\ UNCHANGED <<spec, secret, seed, runs, input, result, wire, parsed, args>>

\* Secret::new(data)
NewSecret ==
    /\ pc = "args"
    /\ args.fn = "Secret::new"
    /\ made' = Secret_new(args.data)
    /\ pc' = "made"
    /\ UNCHANGED <<spec, secret, seed, runs, input, result, wire, parsed, args>>

\* deserialize_share(source), whose value goes through Secret::new
NewShare ==
    /\ pc = "args"
    /\ args.fn = "deserialize_share"
    /\ made' = deserialize_share(args.source)
    /\ pc' = "made"
    /\ UNCHANGED <<spec, secret, seed, runs, input, result, wire, parsed, args>>

NextNew == NewGroupSpec \/ NewSpec \/ NewSecret \/ NewShare

SpecNew == InitNew /\ [][NextNew]_vars

----------------------------------------------------------------------------
(* Claims on SpecNew *)

\* C12 (GroupSpec invariant): GroupSpec::new returns a GroupSpec exactly for
\* the pairs with 1 <= memberThreshold <= memberCount <= MAX_SHARE_COUNT,
\* and rejects every other pair.
C12_GroupSpecInvariant ==
    (pc = "made" /\ args.fn = "GroupSpec::new") =>
        /\ made.ok <=> /\ 1 <= args.member_threshold
                       /\ args.member_threshold <= args.member_count
                       /\ args.member_count <= MAX_SHARE_COUNT
        /\ made.ok => /\ made.val.member_threshold = args.member_threshold
                      /\ made.val.member_count = args.member_count

\* C13 (Spec validation): Spec::new returns a Spec exactly when
\* 1 <= groupThreshold <= len(groups) <= MAX_SHARE_COUNT; it fails with
\* GroupThresholdInvalid when the threshold is 0 or above len(groups), and
\* with GroupCountInvalid when len(groups) is above MAX_SHARE_COUNT and the
\* threshold is within 1..len(groups); the Spec keeps the groups in the
\* order given.
C13_SpecValidation ==
    (pc = "made" /\ args.fn = "Spec::new") =>
        /\ made.ok <=> /\ 1 <= args.group_threshold
                       /\ args.group_threshold <= Len(args.groups)
                       /\ Len(args.groups) <= MAX_SHARE_COUNT
        /\ (args.group_threshold = 0
               \/ args.group_threshold > Len(args.groups))
              => (~made.ok /\ made.err = "GroupThresholdInvalid")
        /\ (/\ Len(args.groups) > MAX_SHARE_COUNT
            /\ args.group_threshold \in 1..Len(args.groups))
              => (~made.ok /\ made.err = "GroupCountInvalid")
        /\ made.ok => /\ made.val.group_threshold = args.group_threshold
                      /\ made.val.groups = args.groups

\* C13 witness: Spec::new refused a list of more than MAX_SHARE_COUNT
\* groups whose threshold is within their number
C13_Witness ==
    /\ pc = "made"
    /\ args.fn = "Spec::new"
    /\ Len(args.groups) = MAX_SHARE_COUNT + 1
    /\ args.group_threshold = MAX_SHARE_COUNT
    /\ made.err = "GroupCountInvalid"

\* the outcome of the gate on the length of the bytes data
GateOutcome(data, ok, err) ==
    /\ ok <=> /\ Len(data) % 2 = 0
              /\ Len(data) >= MIN_SECRET_LEN
              /\ Len(data) <= MAX_SECRET_LEN
    /\ Len(data) < MIN_SECRET_LEN => err = "SecretTooShort"
    /\ Len(data) > MAX_SECRET_LEN => err = "SecretTooLong"
    /\ (/\ Len(data) >= MIN_SECRET_LEN
        /\ Len(data) <= MAX_SECRET_LEN
        /\ Len(data) % 2 = 1) => err = "SecretLengthNotEven"

\* C14 (Secret validation): Secret::new returns Ok holding exactly the
\* given bytes iff their length is even and within 16..32; otherwise
\* SecretTooShort below 16, SecretTooLong above 32, SecretLengthNotEven for
\* an odd length in range.  The value of a share passes the same gate when
\* the share is deserialized.
C14_SecretValidation ==
    /\ (pc = "made" /\ args.fn = "Secret::new") =>
           /\ GateOutcome(args.data, made.ok, made.err)
           /\ made.ok => made.val = args.data
    /\ (pc = "made" /\ args.fn = "deserialize_share") =>
           /\ GateOutcome(args.data, made.ok, made.err)
           /\ made.ok => made.val.value = args.data

\* C14 witness: deserialize_share refused a share whose value has an odd
\* length within the range
C14_Witness ==
    /\ pc = "made"
    /\ args.fn = "deserialize_share"
    /\ Len(args.data) = 17
    /\ made.err = "SecretLengthNotEven"

----------------------------------------------------------------------------
(* Claims on the loop of combine_shares *)

\* the positions of the first n shares of sh that follow an earlier share
\* of their group with another memberThreshold
ThresholdBreakers(sh, n) ==
    {j \in 1..n : \E i \in 1..(j - 1) :
        /\ sh[i].group_index = sh[j].group_index
        /\ sh[i].member_threshold # sh[j].member_threshold}

\* C15 as stated (member-threshold consistency): when every element
\* deserializes and all shares agree on common metadata, a share with the
\* groupIndex of an already-opened group and a memberThreshold other than
\* the one recorded for the group makes sskr_combine fail with
\* MemberThresholdInvalid.
C15_Original ==
    (/\ pc = "mixed"
     /\ input # <<>>
     /\ AllDeserialize
     /\ Mismatched(Shares) = {}
     /\ ThresholdBreakers(Shares, Len(input)) # {})
    => (~result.ok /\ result.err = "MemberThresholdInvalid")

\* C15 (member-threshold consistency, amended): when every element
\* deserializes, all shares agree on common metadata and no share standing
\* before the first share of differing memberThreshold repeats an accepted
\* member index, sskr_combine fails with MemberThresholdInvalid, also when
\* the bucket of the group is full.
C15_MemberThresholdInvalid ==
    (/\ pc = "mixed"
     /\ input # <<>>
     /\ AllDeserialize
     /\ Mismatched(Shares) = {}
     /\ ThresholdBreakers(Shares, Len(input)) # {}
     /\ ~RepeatsAccepted(Shares,
            First(ThresholdBreakers(Shares, Len(input))) - 1))
    => (~result.ok /\ result.err = "MemberThresholdInvalid")

\* C15 witness: the bucket of a group of memberThreshold 1 is full and has
\* passed over a second share when a share of another memberThreshold comes
C15_Witness ==
    /\ pc = "mixed"
    /\ Len(input) = 3
    /\ AllDeserialize
    /\ Shares[1].group_index = Shares[2].group_index
    /\ Shares[1].group_index = Shares[3].group_index
    /\ Shares[1].member_threshold = 1
    /\ Shares[2].member_threshold = 1
    /\ Shares[1].member_index # Shares[2].member_index
    /\ Shares[3].member_threshold # 1
    /\ result.err = "MemberThresholdInvalid"

\* the positions of the collection whose element fails deserialization
Malformed == {i \in 1..Len(input) : ~Parsed(i).ok}

\* the sequence q without its element i
Without(q, i) == SubSeq(q, 1, i - 1) \o SubSeq(q, i + 1, Len(q))

\* C16 (malformed input aborts the combine): if an element of the
\* collection fails deserialization, sskr_combine returns the
\* deserialization error of the first such element, whatever set-level
\* defect the collection has, and recover_secret is not called.
C16_MalformedAborts ==
    (pc = "mixed" /\ Malformed # {})
    => (/\ ~result.ok
        /\ result.err = Parsed(First(Malformed)).err
        /\ result.calls = <<>>)

\* C16 witness: the collection without its one malformed element combines
\* to the secret, and with it fails with that element's error
C16_Witness ==
    /\ pc = "mixed"
    /\ Len(input) >= 2
    /\ Cardinality(Malformed) = 1
    /\ sskr_combine(Without(input, First(Malformed))).ok
    /\ result.err = Parsed(First(Malformed)).err

\* C17 (only full buckets are recovered): every bucket handed to
\* recover_secret holds exactly the memberThreshold of its group.
C17_FullBuckets ==
    (pc = "generated" /\ input # <<>>) =>
        \A k \in 1..Len(result.calls) :
            result.calls[k].level = "group" =>
                Len(result.calls[k].indexes) = result.calls[k].member_threshold

\* the positions of the shares of group g in sh
PositionsOf(sh, g) == {i \in 1..Len(sh) : sh[i].group_index = g}

\* the position of the e-th share of group g in sh
Nth(sh, g, e) ==
    CHOOSE i \in PositionsOf(sh, g) :
        Cardinality({j \in PositionsOf(sh, g) : j <= i}) = e

\* the bucket group holds the first shares of its group in sh, at most
\* memberThreshold of them
BucketHolds(sh, group) ==
    /\ Len(group.member_indexes) >= 1
    /\ Len(group.member_indexes) <= group.member_threshold
    /\ Len(group.member_indexes) <= MAX_SHARE_COUNT
    /\ Len(group.member_shares) = Len(group.member_indexes)
    /\ \A a \in 1..Len(group.member_indexes) :
       \A b \in 1..Len(group.member_indexes) :
           a # b => group.member_indexes[a] # group.member_indexes[b]
    /\ group.member_threshold
           = sh[Nth(sh, group.group_index, 1)].member_threshold
    /\ \/ Len(group.member_indexes) = group.member_threshold
       \/ Len(group.member_indexes)
              = Cardinality(PositionsOf(sh, group.group_index))
    /\ \A e \in 1..Len(group.member_indexes) :
           /\ group.member_indexes[e]
                  = sh[Nth(sh, group.group_index, e)].member_index
           /\ group.member_shares[e]
                  = sh[Nth(sh, group.group_index, e)].value

\* the state st of the loop after the shares sh
BucketsWellFormed(sh, st) ==
    st.err = "none" =>
        /\ st.next_group = Len(st.groups)
        /\ Len(st.groups) <= MAX_SHARE_COUNT
        /\ {st.groups[k].group_index : k \in 1..Len(st.groups)} = GroupsIn(sh)
        /\ \A k \in 1..Len(st.groups) : \A l \in 1..Len(st.groups) :
               k < l =>
                   /\ st.groups[k].group_index # st.groups[l].group_index
                   /\ Nth(sh, st.groups[k].group_index, 1)
                          < Nth(sh, st.groups[l].group_index, 1)
        /\ \A k \in 1..Len(st.groups) : BucketHolds(sh, st.groups[k])

\* C19 (bucket invariant of combine_shares): after each processed share the
\* buckets have pairwise distinct group indexes in order of first
\* appearance, next_group is the number of buckets, and every bucket holds
\* between 1 and memberThreshold entries of pairwise distinct member
\* indexes, member_indexes and member_shares being of equal length and the
\* first accepted shares of the group in input order; there are at most 16
\* buckets of at most 16 entries.
C19_BucketInvariant ==
    (pc = "generated" /\ input # <<>>) =>
        BucketsWellFormed(Shares, combine_loop(Shares, Len(input)))

\* C19 witness: two groups were opened in another order than their group
\* indexes, and a bucket is full and has passed over a share
C19_Witness ==
    /\ pc = "generated"
    /\ Len(input) = 4
    /\ Len(combine_loop(Shares, 4).groups) = 2
    /\ combine_loop(Shares, 4).groups[1].group_index
           > combine_loop(Shares, 4).groups[2].group_index
    /\ \E k \in 1..2 :
           Len(combine_loop(Shares, 4).groups[k].member_indexes)
               < Cardinality(PositionsOf(Shares,
                     combine_loop(Shares, 4).groups[k].group_index))

====
